---------------------------- MODULE Spec2Model ----------------------------
(***************************************************************************)
(* A model of deck_printer (src/src/main.py): the identifier resolver, the *)
(* card and token resolvers, the top-level driver and the page layout      *)
(* engine.                                                                 *)
(*                                                                         *)
(* Strings are sequences of lexemes.  A lexeme is a run of characters the  *)
(* code never looks inside: "http" (the four letters the code tests with   *)
(* startswith), "card" (the path segment the code compares with), a run of *)
(* letters ("s", "host", a card name), a run of digits ("7"), and the      *)
(* single characters ":", "/", "?" and " ".                                *)
(***************************************************************************)
EXTENDS Integers, Sequences, FiniteSets, TLC

VARIABLES
    pc,                \* position of the driver
    args_no_tokens,    \* args.no_tokens
    args_token,        \* args.token: the --token specs, in order
    deck,              \* load_deck's result: entries sorted by (count, name)
    i_spec,            \* index of the next --token spec
    i_card,            \* index of the next deck row
    image_list,        \* the accumulating image sequence
    token_ids,         \* the token-id set
    forced_token_ids,  \* ids resolved from --token
    todo,              \* token ids the token loop has still to visit
    printed,           \* lines written to stdout
    calls,             \* external calls made so far, in order
    card_data,         \* the record process_card resolved last
    canvas,            \* tile_in_pages' result
    pdf,               \* pages handed to the document emitter
    tid,               \* the driver's tid: what resolve_token_spec returned last
    r_forms            \* the outcomes of resolving one pair in its two forms

vars == <<pc, args_no_tokens, args_token, deck, i_spec, i_card, image_list,
          token_ids, forced_token_ids, todo, printed, calls, card_data,
          canvas, pdf, tid, r_forms>>

-----------------------------------------------------------------------------
(* Bounds *)

MaxSeg == 2        \* lexemes in a set code or a collector number
MaxSpecLen == 3    \* lexemes in a free-form spec string
MaxImages == 10    \* images handed to the layout engine on its own
MaxCount == 3      \* a deck row's count
MaxDeck == 2       \* deck rows
MaxTokenArgs == 1  \* --token options

-----------------------------------------------------------------------------
(* Python strings *)

None == <<"None">>

Letters == {"http", "card", "s", "host", "name",
            "Elf", "Island", "Treasure"}
Digits == {"7"}

\* the lexemes free-form spec strings are drawn from
Alphabet == {"http", "card", "s", "7", ":", "/", "?", " "}

SeqsUpTo(S, n) == UNION {[1..k -> S] : k \in 0..n}

\* s[i:] with a 1-based i
Drop(s, i) == SubSeq(s, i, Len(s))

\* s[:i-1] with a 1-based i
Take(s, i) == SubSeq(s, 1, i - 1)

\* ch in s
Contains(s, ch) == \E i \in 1..Len(s) : s[i] = ch

\* s.find(ch), 1-based; 0 when absent
Find(s, ch) ==
    IF Contains(s, ch)
    THEN CHOOSE i \in 1..Len(s) : s[i] = ch /\ \A j \in 1..(i - 1) : s[j] # ch
    ELSE 0

\* the first position holding one of chs, or Len(s) + 1
FindAny(s, chs) ==
    IF \E i \in 1..Len(s) : s[i] \in chs
    THEN CHOOSE i \in 1..Len(s) : s[i] \in chs /\ \A j \in 1..(i - 1) : s[j] \notin chs
    ELSE Len(s) + 1

RECURSIVE LStrip(_, _)
LStrip(s, ch) == IF s # <<>> /\ s[1] = ch THEN LStrip(Tail(s), ch) ELSE s

RECURSIVE RStrip(_, _)
RStrip(s, ch) ==
    IF s # <<>> /\ s[Len(s)] = ch THEN RStrip(Take(s, Len(s)), ch) ELSE s

\* s.strip(ch)
Strip(s, ch) == RStrip(LStrip(s, ch), ch)

\* s.split(sep): always at least one part
RECURSIVE Split(_, _)
Split(s, sep) ==
    IF Contains(s, sep)
    THEN <<Take(s, Find(s, sep))>> \o Split(Drop(s, Find(s, sep) + 1), sep)
    ELSE <<s>>

\* s.split(sep, 1) of a string that holds sep
SplitOnce(s, sep) == <<Take(s, Find(s, sep)), Drop(s, Find(s, sep) + 1)>>

\* s.startswith('http')
StartsWithHttp(s) == s # <<>> /\ s[1] = "http"

\* s.isdigit()
IsDigit(s) == s # <<>> /\ \A i \in 1..Len(s) : s[i] \in Digits

\* urlparse(spec).path
UrlPath(url) ==
    LET i == Find(url, ":")
        hasScheme == /\ i > 1
                     /\ url[1] \in Letters
                     /\ \A j \in 1..(i - 1) : url[j] \in Letters \cup Digits
        u1 == IF hasScheme THEN Drop(url, i + 1) ELSE url
        hasNetloc == Len(u1) >= 2 /\ u1[1] = "/" /\ u1[2] = "/"
        u2 == IF hasNetloc
              THEN Drop(u1, 2 + FindAny(Drop(u1, 3), {"/", "?"}))
              ELSE u1
    IN  IF Contains(u2, "?") THEN Take(u2, Find(u2, "?")) ELSE u2

\* f"set:{set_code} number:{number}"
SetNumberQuery(set_code, number) ==
    <<"set", ":">> \o set_code \o <<" ", "number", ":">> \o number

\* f"++{name}"
PrintsQuery(name) == <<"++">> \o name

-----------------------------------------------------------------------------
(* The catalog service.  Every query the resolver can build names a card:  *)
(* the pairs and names below name the cards of the deck scenarios, any     *)
(* other query a card whose id is made from the query.  Whether a call     *)
(* succeeds is the caller's oracle.                                         *)

Part(component, id) == [component |-> component, id |-> id]

Card(id, type_line, parts) ==
    [id |-> id, type_line |-> type_line, image |-> <<"img">> \o id,
     all_parts |-> parts]

Spirit == Card(<<"t1">>, <<"Token", "Creature">>, <<>>)
TreasureToken == Card(<<"t2">>, <<"Token", "Artifact">>, <<>>)
Elf == Card(<<"c_elf">>, <<"Creature">>,
            <<Part("combo_piece", <<"c_elf">>), Part("token", <<"t1">>)>>)
Goblin == Card(<<"c_goblin">>, <<"Creature">>,
               <<Part("token", <<"t2">>), Part("token", <<"t1">>)>>)
Island1 == Card(<<"isl1">>, <<"Basic Land", "Island">>, <<>>)
Island2 == Card(<<"isl2">>, <<"Basic Land", "Island">>, <<>>)
Decoy == Card(<<"decoy">>, <<"Creature">>, <<>>)

KnownCards == {Spirit, TreasureToken, Elf, Goblin,
               Island1, Island2, Decoy}

\* the card a query (or a name) names
CardFor(q) ==
    CASE q = SetNumberQuery(<<"s">>, <<"7">>) -> Spirit
      [] q = SetNumberQuery(<<"card">>, <<"7">>) -> Goblin
      [] q = <<"Treasure">> -> TreasureToken
      [] q = <<"Elf">> -> Elf
      [] q = <<"Island">> -> Island1
      [] OTHER -> Card(<<"id">> \o q, <<"Creature">>, <<>>)

\* scrython.cards.Search(q=...).data() of a call that succeeds
SearchData(q, mode) ==
    CASE q = PrintsQuery(<<"Island">>) -> <<Island1, Island2>>
      [] mode = "empty" -> <<>>
      [] mode = "hit2" -> <<CardFor(q), Decoy>>
      [] OTHER -> <<CardFor(q)>>

\* to_json(scrython.cards.Id(id=...)) of a call that succeeds
CardById(id) ==
    IF \E c \in KnownCards : c.id = id
    THEN CHOOSE c \in KnownCards : c.id = id
    ELSE Card(id, <<"Creature">>, <<>>)

\* one external call in the log: who made it, what it was, whether it came back
Call(by, op, arg) == [by |-> by, op |-> op, arg |-> arg, ok |-> TRUE]

\* the calls made, the last of which raised
FailLast(made) ==
    [i \in 1..Len(made) |->
        IF i = Len(made) THEN [made[i] EXCEPT !.ok = FALSE] ELSE made[i]]

Return(value, made) == [kind |-> "return", value |-> value, calls |-> made]
Raise(made) == [kind |-> "raise", value |-> None, calls |-> FailLast(made)]

\* what the catalog does in one call of a handler
SearchModes == {"fail", "empty", "hit", "hit2"}
LookupModes == {"fail", "hit"}

-----------------------------------------------------------------------------
(* resolve_token_spec *)

\* results = Search(q=...).data(); if results: return results[0]['id']
SearchFirstId(q, net) ==
    LET made == <<Call("resolve_token_spec", "Search", q)>>
        results == SearchData(q, net.search)
    IN  IF net.search = "fail" THEN Raise(made)
        ELSE IF results # <<>> THEN Return(results[1].id, made)
        ELSE Return(None, made)

\* parsed.path.strip('/').split('/')
UrlParts(spec) == Split(Strip(UrlPath(spec), "/"), "/")

\* the body of the try block
ResolveTry(spec, net) ==
    IF StartsWithHttp(spec)
    THEN LET parts == UrlParts(spec)
         IN  IF Len(parts) >= 3 /\ parts[1] = <<"card">>
             THEN SearchFirstId(SetNumberQuery(parts[2], parts[3]), net)
             ELSE Return(None, <<>>)
    ELSE IF Contains(spec, "/")
    THEN LET p == SplitOnce(spec, "/")
         IN  SearchFirstId(SetNumberQuery(p[1], p[2]), net)
    ELSE IF net.named = "fail"
    THEN Raise(<<Call("resolve_token_spec", "Named", spec)>>)
    ELSE Return(CardFor(spec).id, <<Call("resolve_token_spec", "Named", spec)>>)

\* no except clause: what the try block raises goes up
CatchNothing(r) == r

\* try: ... except Exception: return None
CatchAll(r) == IF r.kind = "raise" THEN Return(None, r.calls) ELSE r

resolve_token_spec(spec, net) == CatchAll(ResolveTry(Strip(spec, " "), net))

-----------------------------------------------------------------------------
(* fetch_image, get_tokens *)

\* the pixel shape (height, width) of the artwork the catalog serves
NormalShape == <<680, 488>>

\* the raster fetch_image decodes from card_data['image_uris']['normal']
fetch_image(card) ==
    [art |-> card.image, h |-> NormalShape[1], w |-> NormalShape[2]]

\* the ids of the parts whose component is 'token'
get_tokens(card) ==
    {card.all_parts[i].id : i \in {j \in 1..Len(card.all_parts) :
                                      card.all_parts[j].component = "token"}}

\* [x] * n
Repeat(x, n) == [i \in 1..n |-> x]

-----------------------------------------------------------------------------
(* process_card.  The oracle net says what the catalog and the artwork     *)
(* host do during the call: net.search is the outcome of the resolver's    *)
(* search, net.fail the call that fails ("none", "id", "named", "land",    *)
(* "fetch") and net.at which of the fetches it is.                         *)

FailPoints == {"none", "id", "named", "land", "fetch"}

Oracles(searchModes, fetches) ==
    [search : searchModes, named : {"hit"}, fail : FailPoints \ {"fetch"}, at : {1}]
    \cup [search : searchModes, named : {"hit"}, fail : {"fetch"}, at : 1..fetches]

\* name.startswith('http') or ('/' in name and not name.isdigit())
LooksLikeSpec(name) ==
    StartsWithHttp(name) \/ (Contains(name, "/") /\ ~IsDigit(name))

\* k positions drawn with replacement
SamplesWithRepeats(candidates, k) == [1..k -> 1..Len(candidates)]

\* random.sample(candidates, k): the orders of k distinct positions
Samples(candidates, k) ==
    {p \in [1..k -> 1..Len(candidates)] :
        \A i, j \in 1..k : i # j => p[i] # p[j]}

Outcome(kind, imgs, toks, made, card) ==
    [kind |-> kind, image_list |-> imgs, token_ids |-> toks, calls |-> made,
     card_data |-> card]

NoCard == <<>>

\* image_list.extend(map(fetch_image, sample)): the list grows one image at
\* a time, and keeps what it got when a fetch raises
ExtendWithPrintings(imgs, toks, made, card, candidates, pick, net) ==
    LET k == Len(pick)
        stop == IF net.fail = "fetch" /\ net.at <= k THEN net.at ELSE k + 1
        got == [i \in 1..(stop - 1) |-> fetch_image(candidates[pick[i]])]
        fetches == [i \in 1..(IF stop <= k THEN stop ELSE k) |->
                       Call("process_card", "fetch", candidates[pick[i]].image)]
    IN  IF stop <= k
        THEN Outcome("raise", imgs \o got, toks, made \o FailLast(fetches), <<card>>)
        ELSE Outcome("return", imgs \o got, toks, made \o fetches, <<card>>)

\* lines 64-67: the basic-land branch
LandBranch(infos, imgs, toks, made, card, pick, net) ==
    LET q == PrintsQuery(infos.name)
        made2 == Append(made, Call("process_card", "Search", q))
        candidates == SearchData(q, "hit")
    IN  IF net.fail = "land"
        THEN Outcome("raise", imgs, toks, FailLast(made2), <<card>>)
        ELSE IF infos.count > Len(candidates) \/ infos.count < 0
        THEN Outcome("raise", imgs, toks, made2, <<card>>)
        ELSE ExtendWithPrintings(imgs, toks, made2, card, candidates, pick, net)

\* one copy too many
OtherBranchExtraCopy(infos, imgs, toks, add_tokens, made, card, net) ==
    LET made2 == Append(made, Call("process_card", "fetch", card.image))
    IN  IF net.fail = "fetch"
        THEN Outcome("raise", imgs, toks, FailLast(made2), <<card>>)
        ELSE Outcome("return",
                     imgs \o Repeat(fetch_image(card), infos.count + 1),
                     IF add_tokens THEN toks \cup get_tokens(card) ELSE toks,
                     made2, <<card>>)

\* lines 68-72: every other card
OtherBranch(infos, imgs, toks, add_tokens, made, card, net) ==
    LET made2 == Append(made, Call("process_card", "fetch", card.image))
    IN  IF net.fail = "fetch"
        THEN Outcome("raise", imgs, toks, FailLast(made2), <<card>>)
        ELSE Outcome("return",
                     imgs \o Repeat(fetch_image(card), infos.count),
                     IF add_tokens THEN toks \cup get_tokens(card) ELSE toks,
                     made2, <<card>>)

\* lines 64-72
Branches(infos, imgs, toks, add_tokens, made, card, pick, net) ==
    IF card.type_line[1] = "Basic Land"
    THEN LandBranch(infos, imgs, toks, made, card, pick, net)
    ELSE OtherBranch(infos, imgs, toks, add_tokens, made, card, net)

\* lines 56-59: the card record by id when the name resolved as a spec (r is
\* what resolve_token_spec did), by fuzzy name otherwise
LookupCalls(name, r) ==
    r.calls \o (IF r.value # None THEN <<Call("process_card", "Id", r.value)>>
                                  ELSE <<Call("process_card", "Named", name)>>)

LookupAfter(name, net, r) ==
    IF r.kind = "raise" THEN Raise(r.calls)
    ELSE IF r.value # None /\ net.fail = "id" THEN Raise(LookupCalls(name, r))
    ELSE IF r.value = None /\ net.fail = "named" THEN Raise(LookupCalls(name, r))
    ELSE Return(IF r.value # None THEN CardById(r.value) ELSE CardFor(name),
                LookupCalls(name, r))

\* lines 51-62; except Exception: raise
Lookup(name, net) ==
    LookupAfter(name, net,
                IF LooksLikeSpec(name) THEN resolve_token_spec(name, net)
                ELSE Return(None, <<>>))

\* a failed lookup skips the row instead of raising
AfterLookupSkipping(infos, imgs, toks, add_tokens, pick, net, found) ==
    IF found.kind = "raise"
    THEN Outcome("return", imgs, toks, found.calls, NoCard)
    ELSE Branches(infos, imgs, toks, add_tokens, found.calls, found.value,
                  pick, net)

\* lines 64-74, found being what the lookup did
AfterLookup(infos, imgs, toks, add_tokens, pick, net, found) ==
    IF found.kind = "raise"
    THEN Outcome("raise", imgs, toks, found.calls, NoCard)
    ELSE Branches(infos, imgs, toks, add_tokens, found.calls, found.value,
                  pick, net)

process_card(infos, imgs, toks, add_tokens, pick, net) ==
    AfterLookup(infos, imgs, toks, add_tokens, pick, net,
                Lookup(Strip(infos.name, " "), net))

\* a token printed once
process_token_single(ident, imgs, net) ==
    LET made == <<Call("process_token", "Id", ident)>>
        card == CardById(ident)
        made2 == Append(made, Call("process_token", "fetch", card.image))
    IN  IF net.fail = "id" THEN Outcome("raise", imgs, {}, FailLast(made), NoCard)
        ELSE IF net.fail = "fetch"
        THEN Outcome("raise", imgs, {}, FailLast(made2), <<card>>)
        ELSE Outcome("return", Append(imgs, fetch_image(card)), {}, made2, <<card>>)

\* lines 77-79
process_token(ident, imgs, net) ==
    LET made == <<Call("process_token", "Id", ident)>>
        card == CardById(ident)
        made2 == Append(made, Call("process_token", "fetch", card.image))
    IN  IF net.fail = "id" THEN Outcome("raise", imgs, {}, FailLast(made), NoCard)
        ELSE IF net.fail = "fetch"
        THEN Outcome("raise", imgs, {}, FailLast(made2), <<card>>)
        ELSE Outcome("return", imgs \o Repeat(fetch_image(card), 2), {},
                     made2, <<card>>)

-----------------------------------------------------------------------------
(* tile_in_pages.  Inches are counted in thousandths, so that the ratios   *)
(* the code computes in floating point are ratios of integers here.        *)

ROWS_PER_PAGE == 3
COLS_PER_PAGE == 3
CARDS_PER_PAGE == ROWS_PER_PAGE * COLS_PER_PAGE
H_INCHES == 3480
W_INCHES == 2490
PAD_INCHES == 5
PAGE_H_INCHES == 11000
PAGE_W_INCHES == 8500
WHITE == <<"WHITE">>

\* round(num / den): Python rounds to the nearest integer, a tie to the even
\* one.  (The shapes below put no ratio on a tie, where the floating-point
\* quotient could fall on either side.)
round(num, den) ==
    LET q == num \div den
        r == num % den
    IN  IF 2 * r > den \/ (2 * r = den /\ q % 2 = 1) THEN q + 1 ELSE q

\* a filler count that leaves a full last page alone
NbMissingNoExtraPage(nb_images) ==
    (CARDS_PER_PAGE - (nb_images % CARDS_PER_PAGE)) % CARDS_PER_PAGE

\* nb_missing = CARDS_PER_PAGE - (nb_images % CARDS_PER_PAGE)
NbMissing(nb_images) == CARDS_PER_PAGE - (nb_images % CARDS_PER_PAGE)

\* np.vstack([image_list, np.full([nb_missing, *img_shape], WHITE)])
Stack(imgs) ==
    imgs \o Repeat([art |-> WHITE, h |-> imgs[1].h, w |-> imgs[1].w],
                   NbMissing(Len(imgs)))

\* padding filled in on both sides of each axis
CellPaddingBothSides(h, w) ==
    [h |-> <<round(PAD_INCHES * h, H_INCHES), round(PAD_INCHES * h, H_INCHES)>>,
     w |-> <<round(PAD_INCHES * w, W_INCHES), round(PAD_INCHES * w, W_INCHES)>>]

\* lines 112-114: the (before, after) widths of the padding on the height
\* and the width axis of every cell
CellPadding(h, w) ==
    [h |-> <<round(PAD_INCHES * h, H_INCHES), 0>>,
     w |-> <<round(PAD_INCHES * w, W_INCHES), 0>>]

\* np.pad(canvas, padding, constant_values=WHITE), cell by cell
Pad(cell, padding) ==
    [art |-> cell.art, h |-> cell.h, w |-> cell.w,
     above |-> padding.h[1], below |-> padding.h[2],
     left |-> padding.w[1], right |-> padding.w[2]]

CellH(c) == c.above + c.h + c.below
CellW(c) == c.left + c.w + c.right

\* a grid filled column by column
CellIndexColumnMajor(p, r, c) == (p * COLS_PER_PAGE + c) * ROWS_PER_PAGE + r

\* the cell of page p (from 0) at row r, column c under
\* '(p rows cols) h w c -> p (rows h) (cols w) c'
CellIndex(p, r, c) == (p * ROWS_PER_PAGE + r) * COLS_PER_PAGE + c

\* rearrange(canvas, ...): one grid of cells per page
Rearrange(cells) ==
    [p \in 1..(Len(cells) \div CARDS_PER_PAGE) |->
        [r \in 0..(ROWS_PER_PAGE - 1) |->
            [c \in 0..(COLS_PER_PAGE - 1) |-> cells[CellIndex(p - 1, r, c) + 1]]]]

\* lines 124-129: the margin added on both sides of each page axis
PageMargin(cell_h, cell_w) ==
    [h |-> round((PAGE_H_INCHES - H_INCHES * ROWS_PER_PAGE) * cell_h, H_INCHES * 2),
     w |-> round((PAGE_W_INCHES - W_INCHES * COLS_PER_PAGE) * cell_w, W_INCHES * 2)]

tile_in_pages(imgs) ==
    LET padding == CellPadding(imgs[1].h, imgs[1].w)
        cells == [i \in 1..Len(Stack(imgs)) |-> Pad(Stack(imgs)[i], padding)]
        margin == PageMargin(CellH(cells[1]), CellW(cells[1]))
        grids == Rearrange(cells)
    IN  [p \in 1..Len(grids) |->
            [grid |-> grids[p],
             top |-> margin.h, bottom |-> margin.h,
             left |-> margin.w, right |-> margin.w,
             height |-> 2 * margin.h + ROWS_PER_PAGE * CellH(cells[1]),
             width |-> 2 * margin.w + COLS_PER_PAGE * CellW(cells[1])]]

-----------------------------------------------------------------------------
(* The driver: lines 207-234 *)

Row(name, count) == [name |-> name, count |-> count]

\* the names deck rows are drawn from, in the order sort_values puts them
DeckNames == << <<"Elf">>, <<"Island">>, <<"card", "/", "7">> >>

RowRank(row) ==
    row.count * (Len(DeckNames) + 1)
    + (CHOOSE i \in 1..Len(DeckNames) : DeckNames[i] = row.name)

Rows == {Row(DeckNames[i], n) : i \in 1..Len(DeckNames), n \in 1..MaxCount}

\* load_deck: rows sorted by (count, name)
Decks ==
    {d \in SeqsUpTo(Rows, MaxDeck) :
        \A i \in 1..(Len(d) - 1) : RowRank(d[i]) <= RowRank(d[i + 1])}

\* https://host/card/{set}/{number}/{name}
UrlForm(set_code, number) ==
    <<"http", ":", "/", "/", "host", "/", "card", "/">> \o set_code
    \o <<"/">> \o number \o <<"/", "name">>

\* {set}/{number}
ShortForm(set_code, number) == set_code \o <<"/">> \o number

\* the --token specs of the runs
TokenArgs == {UrlForm(<<"s">>, <<"7">>), <<"Treasure">>}

Warning(spec) == <<"Warning: could not resolve token spec: ">> \o spec
Note == <<"Note: user-specified tokens will be included despite --no-tokens.">>

Start(no_tokens, specs, rows, imgs, at) ==
    /\ pc = at
    /\ args_no_tokens = no_tokens
    /\ args_token = specs
    /\ deck = rows
    /\ i_spec = 1
    /\ i_card = 1
    /\ image_list = imgs
    /\ token_ids = {}
    /\ forced_token_ids = {}
    /\ todo = {}
    /\ printed = <<>>
    /\ calls = <<>>
    /\ card_data = NoCard
    /\ canvas = <<>>
    /\ pdf = <<>>
    /\ tid = None
    /\ r_forms = <<>>

Init ==
    \E no_tokens \in BOOLEAN, specs \in SeqsUpTo(TokenArgs, MaxTokenArgs),
       rows \in Decks :
        Start(no_tokens, specs, rows, <<>>, "forced")

\* lines 214-219: one --token spec
ResolveForced ==
    /\ pc = "forced"
    /\ i_spec <= Len(args_token)
    /\ \E search \in SearchModes, named \in LookupModes :
        LET r == resolve_token_spec(args_token[i_spec],
                                    [search |-> search, named |-> named])
        IN  /\ calls' = calls \o r.calls
            /\ tid' = r.value
            /\ IF r.kind = "raise"
               THEN /\ pc' = "aborted"
                    /\ UNCHANGED <<i_spec, forced_token_ids, printed>>
               ELSE /\ pc' = pc
                    /\ i_spec' = i_spec + 1
                    /\ IF r.value # None
                       THEN /\ forced_token_ids' = forced_token_ids \cup {r.value}
                            /\ printed' = printed
                       ELSE /\ forced_token_ids' = forced_token_ids
                            /\ printed' = Append(printed, Warning(args_token[i_spec]))
    /\ UNCHANGED <<args_no_tokens, args_token, deck, i_card, image_list,
                   token_ids, todo, card_data, canvas, pdf, r_forms>>

\* lines 221-224
StartCards ==
    /\ pc = "forced"
    /\ i_spec > Len(args_token)
    /\ printed' = IF forced_token_ids # {} /\ args_no_tokens
                  THEN Append(printed, Note) ELSE printed
    /\ token_ids' = token_ids \cup forced_token_ids
    /\ pc' = "cards"
    /\ UNCHANGED <<args_no_tokens, args_token, deck, i_spec, i_card, image_list,
                   forced_token_ids, todo, calls, card_data, canvas, pdf, tid,
                   r_forms>>

\* the samples random.sample can return for a row
Picks(row) ==
    LET candidates == SearchData(PrintsQuery(row.name), "hit")
    IN  IF row.count <= Len(candidates) THEN Samples(candidates, row.count)
        ELSE {<<>>}

\* lines 225-226: one deck row
ProcessCard ==
    /\ pc = "cards"
    /\ i_card <= Len(deck)
    /\ \E pick \in Picks(deck[i_card]),
          net \in Oracles(IF LooksLikeSpec(deck[i_card].name)
                          THEN SearchModes ELSE {"hit"},
                          deck[i_card].count) :
        LET r == process_card(deck[i_card], image_list, token_ids,
                              ~args_no_tokens, pick, net)
        IN  /\ image_list' = r.image_list
            /\ token_ids' = r.token_ids
            /\ calls' = calls \o r.calls
            /\ card_data' = r.card_data
            /\ pc' = IF r.kind = "raise" THEN "aborted" ELSE pc
            /\ i_card' = IF r.kind = "raise" THEN i_card ELSE i_card + 1
    /\ UNCHANGED <<args_no_tokens, args_token, deck, i_spec, forced_token_ids,
                   todo, printed, canvas, pdf, tid, r_forms>>

\* the token phase entered for automatic tokens only
TokenPhaseAutomaticOnly(add_tokens, toks, forced) == add_tokens /\ toks # {}

\* (add_tokens and token_ids) or forced_token_ids
TokenPhase(add_tokens, toks, forced) ==
    (add_tokens /\ toks # {}) \/ forced # {}

\* line 229: after the last row
StartTokens ==
    /\ pc = "cards"
    /\ i_card > Len(deck)
    /\ IF TokenPhase(~args_no_tokens, token_ids, forced_token_ids)
       THEN pc' = "tokens" /\ todo' = token_ids
       ELSE pc' = "tile" /\ todo' = todo
    /\ UNCHANGED <<args_no_tokens, args_token, deck, i_spec, i_card, image_list,
                   token_ids, forced_token_ids, printed, calls, card_data,
                   canvas, pdf, tid, r_forms>>

\* lines 230-231: one token id, in the order the set yields them
ProcessToken ==
    /\ pc = "tokens"
    /\ \E ident \in todo, fail \in {"none", "id", "fetch"} :
        LET r == process_token(ident, image_list, [fail |-> fail])
        IN  /\ image_list' = r.image_list
            /\ calls' = calls \o r.calls
            /\ card_data' = r.card_data
            /\ pc' = IF r.kind = "raise" THEN "aborted" ELSE pc
            /\ todo' = IF r.kind = "raise" THEN todo ELSE todo \ {ident}
    /\ UNCHANGED <<args_no_tokens, args_token, deck, i_spec, i_card, token_ids,
                   forced_token_ids, printed, canvas, pdf, tid, r_forms>>

\* the token loop is over
EndTokens ==
    /\ pc = "tokens"
    /\ todo = {}
    /\ pc' = "tile"
    /\ UNCHANGED <<args_no_tokens, args_token, deck, i_spec, i_card, image_list,
                   token_ids, forced_token_ids, todo, printed, calls, card_data,
                   canvas, pdf, tid, r_forms>>

\* line 233; image_list[0] of an empty list raises
TileInPages ==
    /\ pc = "tile"
    /\ IF image_list = <<>>
       THEN pc' = "aborted" /\ canvas' = canvas
       ELSE pc' = "pdf" /\ canvas' = tile_in_pages(image_list)
    /\ UNCHANGED <<args_no_tokens, args_token, deck, i_spec, i_card, image_list,
                   token_ids, forced_token_ids, todo, printed, calls, card_data,
                   pdf, tid, r_forms>>

\* line 234: generate_pdf adds one page of the document per page of the canvas
GeneratePdf ==
    /\ pc = "pdf"
    /\ pdf' = [i \in 1..Len(canvas) |-> canvas[i]]
    /\ pc' = "done"
    /\ UNCHANGED <<args_no_tokens, args_token, deck, i_spec, i_card, image_list,
                   token_ids, forced_token_ids, todo, printed, calls, card_data,
                   canvas, tid, r_forms>>

Next ==
    \/ ResolveForced
    \/ StartCards
    \/ ProcessCard
    \/ StartTokens
    \/ ProcessToken
    \/ EndTokens
    \/ TileInPages
    \/ GeneratePdf

Spec == Init /\ [][Next]_vars

-----------------------------------------------------------------------------
(* The resolver on its own: the driver's loop over one --token spec drawn  *)
(* from all short strings and from the URLs of the codes, and one pair of  *)
(* codes resolved in its two forms against the same catalog responses.     *)

\* the lexemes of set codes and collector numbers: letters and digits
CodeLexemes == {"http", "s", "7"}

Codes == SeqsUpTo(CodeLexemes, MaxSeg) \ {<<>>}

\* a URL whose path has no leading 'card' segment
UrlNoCard(set_code, number) ==
    <<"http", ":", "/", "/", "host", "/">> \o set_code \o <<"/">> \o number

SpecStrings ==
    SeqsUpTo(Alphabet, MaxSpecLen)
    \cup {UrlForm(a, b) : a, b \in Codes}
    \cup {UrlNoCard(a, b) : a, b \in Codes}

InitResolve ==
    \E specs \in {<<>>} \cup {<<x>> : x \in SpecStrings} :
        Start(FALSE, specs, <<>>, <<>>, "forced")

ResolveForms ==
    /\ pc = "forced"
    /\ args_token = <<>>
    /\ r_forms = <<>>
    /\ \E set_code \in Codes, number \in Codes, search \in SearchModes :
        r_forms' = <<[set_code |-> set_code, number |-> number,
                      url |-> resolve_token_spec(UrlForm(set_code, number),
                                  [search |-> search, named |-> "hit"]),
                      short |-> resolve_token_spec(ShortForm(set_code, number),
                                  [search |-> search, named |-> "hit"])]>>
    /\ UNCHANGED <<pc, args_no_tokens, args_token, deck, i_spec, i_card,
                   image_list, token_ids, forced_token_ids, todo, printed,
                   calls, card_data, canvas, pdf, tid>>

NextResolve ==
    \/ ResolveForced
    \/ ResolveForms

SpecResolve == InitResolve /\ [][NextResolve]_vars

-----------------------------------------------------------------------------
(* The layout engine on its own: every sequence of equal-shape images.     *)

Arts == {<<"a">>, <<"b">>}

Shapes == {<<680, 488>>, <<340, 244>>, <<1400, 1000>>}

InitTile ==
    \E shape \in Shapes, arts \in SeqsUpTo(Arts, MaxImages) \ {<<>>} :
        Start(FALSE, <<>>, <<>>,
              [i \in 1..Len(arts) |-> [art |-> arts[i], h |-> shape[1], w |-> shape[2]]],
              "tile")

NextTile ==
    \/ TileInPages
    \/ GeneratePdf

SpecTile == InitTile /\ [][NextTile]_vars

-----------------------------------------------------------------------------
(* The layout engine's properties (checked under SpecTile) *)

Tiled == pc \in {"pdf", "done"}

\* the (row, column) positions of a page's grid
Positions(page) ==
    UNION {{<<r, c>> : c \in DOMAIN page.grid[r]} : r \in DOMAIN page.grid}

\* C1: for N >= 1 images tile_in_pages returns ceil(N / 9) pages, one more
\* if and only if N mod 9 = 0, and every page holds exactly 9 cells.
C1_PageCount ==
    Tiled =>
        /\ Len(canvas) = (Len(image_list) + 8) \div 9
                         + (IF Len(image_list) % 9 = 0 THEN 1 ELSE 0)
        /\ \A p \in 1..Len(canvas) : Cardinality(Positions(canvas[p])) = 9

\* nine images have been tiled into two pages
C1_Witness == pc = "pdf" /\ Len(image_list) = 9 /\ Len(canvas) = 2

\* C2: the i-th input image (from 0) is the cell of page floor(i / 9), row
\* floor((i mod 9) / 3), column i mod 3; no cell holds anything else than its
\* input image or, from index N on, white filler.
C2_RowMajorInOrder ==
    Tiled =>
        /\ 9 * Len(canvas) >= Len(image_list)
        /\ \A i \in 0..(Len(image_list) - 1) :
            LET cell == canvas[(i \div 9) + 1].grid[(i % 9) \div 3][i % 3]
            IN  /\ cell.art = image_list[i + 1].art
                /\ cell.h = image_list[i + 1].h
                /\ cell.w = image_list[i + 1].w
        /\ \A p \in 1..Len(canvas) : \A pos \in Positions(canvas[p]) :
            9 * (p - 1) + 3 * pos[1] + pos[2] >= Len(image_list)
                => canvas[p].grid[pos[1]][pos[2]].art = WHITE

\* ten images, the second and the fourth different, the tenth on page two
C2_Witness ==
    /\ pc = "pdf"
    /\ Len(image_list) = 10
    /\ image_list[2].art # image_list[4].art
    /\ canvas[2].grid[0][0].art = image_list[10].art
    /\ canvas[2].grid[0][1].art = WHITE

Cells == {canvas[p].grid[pos[1]][pos[2]] :
            p \in 1..Len(canvas), pos \in (0..2) \X (0..2)}

\* n is the integer nearest to num / den
Nearest(n, num, den) == 2 * (n * den - num) <= den /\ 2 * (num - n * den) <= den

\* C10 as stated: around every cell the padding above equals the padding
\* below (round(0.005 / 3.48 * height) each) and the padding on the left
\* equals the padding on the right (round(0.005 / 2.49 * width) each).
C10_SymmetricPadding ==
    Tiled =>
        \A cell \in Cells :
            /\ cell.above = cell.below
            /\ cell.left = cell.right
            /\ Nearest(cell.above, 5 * cell.h, 3480)
            /\ Nearest(cell.left, 5 * cell.w, 2490)

\* C10 as amended: every cell gets round(0.005 / 3.48 * height) white rows
\* above the image and none below, round(0.005 / 2.49 * width) white columns
\* on its left and none on its right.
C10_PaddingBeforeOnly ==
    Tiled =>
        \A cell \in Cells :
            /\ Nearest(cell.above, 5 * cell.h, 3480)
            /\ cell.below = 0
            /\ Nearest(cell.left, 5 * cell.w, 2490)
            /\ cell.right = 0

\* a 680 x 488 image has got one row above and one column on its left
C10_Witness ==
    /\ pc = "pdf"
    /\ canvas[1].grid[0][0].h = 680
    /\ canvas[1].grid[0][0].above = 1
    /\ canvas[1].grid[0][0].left = 1

-----------------------------------------------------------------------------
(* The resolver's properties (checked under SpecResolve) *)

\* a call of the log that did not come back
Failures == {i \in 1..Len(calls) : ~calls[i].ok}

\* C3: resolve_token_spec never raises: whatever the spec string and whatever
\* the catalog does (a call that fails, no result, a path that is not
\* card/{set}/{number}), the driver gets None, warns and goes on, or gets the
\* id of the first card the catalog returned for the one query made.
C3_ResolveNeverRaises ==
    /\ pc # "aborted"
    /\ i_spec > 1 =>
        /\ Len(calls) <= 1
        /\ tid = None =>
            /\ forced_token_ids = {}
            /\ printed = <<Warning(args_token[1])>>
        /\ tid # None =>
            /\ Failures = {}
            /\ Len(calls) = 1
            /\ tid = CardFor(calls[1].arg).id
            /\ forced_token_ids = {tid}
            /\ printed = <<>>
        /\ Failures # {} => tid = None

\* a fuzzy name lookup failed inside the resolver and the driver went on
C3_Witness ==
    /\ pc = "forced"
    /\ i_spec = 2
    /\ Failures = {1}
    /\ calls[1].op = "Named"
    /\ tid = None

FormsResolved == r_forms # <<>>

\* the two forms made the same catalog calls and returned the same value
FormsAgree(f) == f.url.calls = f.short.calls /\ f.url.value = f.short.value

\* C4 as stated: for every (set, number) pair the URL form and the shorthand
\* form issue the same catalog query and return the same id.
C4_FormsAgree == FormsResolved => FormsAgree(r_forms[1])

\* C4 away from the misrouted shorthand: for every pair of alphanumeric codes
\* whose set code does not begin with "http", both forms issue the one query
\* "set:{set} number:{number}" and return the same value, the id of its first
\* match when there is one.
C4_FormsAgreeUnlessHttp ==
    (FormsResolved /\ ~StartsWithHttp(r_forms[1].set_code)) =>
        /\ FormsAgree(r_forms[1])
        /\ Len(r_forms[1].url.calls) = 1
        /\ r_forms[1].url.calls[1].op = "Search"
        /\ r_forms[1].url.calls[1].arg
              = <<"set", ":">> \o r_forms[1].set_code
                \o <<" ", "number", ":">> \o r_forms[1].number
        /\ r_forms[1].short.value
              \in {None, CardFor(r_forms[1].short.calls[1].arg).id}

\* the pair (s, 7) resolved to the same card in both forms
C4_Witness ==
    /\ FormsResolved
    /\ r_forms[1].set_code = <<"s">>
    /\ r_forms[1].number = <<"7">>
    /\ r_forms[1].url.value = Spirit.id
    /\ r_forms[1].short.value = Spirit.id

-----------------------------------------------------------------------------
(* The pipeline's properties (checked under Spec) *)

\* the next step is process_card on deck[i_card]
CardStep == pc = "cards" /\ i_card <= Len(deck)

\* the positions a step appends to image_list
NewImages == (Len(image_list) + 1)..Len(image_list')

\* the artwork fetches a step adds to the log
NewFetches ==
    {i \in (Len(calls) + 1)..Len(calls') : calls'[i].op = "fetch"}

\* the printings the catalog holds for a row's name
CandidateArts(row) ==
    {SearchData(<<"++">> \o row.name, "hit")[j].image :
        j \in 1..Len(SearchData(<<"++">> \o row.name, "hit"))}

\* C5: a row that resolves to a basic land with count k makes process_card
\* append exactly k images, one fetched per printing, the printings pairwise
\* distinct candidates; when k exceeds the number of candidates the call
\* fails and appends nothing.
C5_LandSampling ==
    [][(CardStep /\ card_data' # NoCard
            /\ card_data'[1].type_line[1] = "Basic Land") =>
        IF deck[i_card].count > Cardinality(CandidateArts(deck[i_card]))
        THEN pc' = "aborted" /\ image_list' = image_list
        ELSE pc' = "cards" =>
            /\ Len(image_list') = Len(image_list) + deck[i_card].count
            /\ SubSeq(image_list', 1, Len(image_list)) = image_list
            /\ Cardinality(NewFetches) = deck[i_card].count
            /\ \A i \in NewImages :
                image_list'[i].art \in CandidateArts(deck[i_card])
            /\ \A i, j \in NewImages :
                i # j => image_list'[i].art # image_list'[j].art
      ]_vars

\* two Islands were sampled, then a row of three Islands failed
C5_Witness ==
    /\ pc = "aborted"
    /\ Len(deck) = 2
    /\ deck[1] = Row(<<"Island">>, 2)
    /\ deck[2] = Row(<<"Island">>, 3)
    /\ i_card = 2
    /\ Len(image_list) = 2
    /\ image_list[1].art # image_list[2].art
    /\ calls[Len(calls)].op = "Search"
    /\ calls[Len(calls)].ok

\* C6: a row that resolves to any other card with count k makes process_card
\* fetch the card's image once and append k copies of that image to the end
\* of the sequence, the images before them unchanged.
C6_NonLandCopies ==
    [][(CardStep /\ pc' = "cards" /\ card_data' # NoCard
            /\ card_data'[1].type_line[1] # "Basic Land") =>
        /\ Len(image_list') = Len(image_list) + deck[i_card].count
        /\ SubSeq(image_list', 1, Len(image_list)) = image_list
        /\ \A i \in NewImages :
            /\ image_list'[i] = image_list'[Len(image_list) + 1]
            /\ image_list'[i].art = card_data'[1].image
        /\ Cardinality(NewFetches) = 1
        /\ \A i \in NewFetches : calls'[i].arg = card_data'[1].image
      ]_vars

\* three copies of the Elf were appended after an Island
C6_Witness ==
    /\ pc = "cards"
    /\ i_card = 3
    /\ deck[1] = Row(<<"Island">>, 1)
    /\ deck[2] = Row(<<"Elf">>, 3)
    /\ Len(image_list) = 4
    /\ image_list[2] = image_list[4]
    /\ image_list[2].art = Elf.image

\* the cards fetched in the card phase that list t as a token part
ListedBy(t) ==
    {c \in KnownCards :
        /\ c.type_line[1] # "Basic Land"
        /\ \E j \in 1..Len(c.all_parts) :
            c.all_parts[j].component = "token" /\ c.all_parts[j].id = t
        /\ \E i \in 1..Len(calls) :
            /\ calls[i].by = "process_card"
            /\ calls[i].op = "fetch"
            /\ calls[i].arg = c.image
            /\ calls[i].ok}

TokenLookups(t) ==
    {i \in 1..Len(calls) :
        calls[i].by = "process_token" /\ calls[i].op = "Id" /\ calls[i].arg = t}

TokenFetches(art) ==
    {i \in 1..Len(calls) :
        calls[i].by = "process_token" /\ calls[i].op = "fetch" /\ calls[i].arg = art}

Copies(art) == Cardinality({i \in 1..Len(image_list) : image_list[i].art = art})

AfterCards == pc \in {"tokens", "tile", "pdf", "done"}
AfterTokens == pc \in {"tile", "pdf", "done"}

TokenCards == {Spirit, TreasureToken}

\* C7: with token collection enabled, a token listed by two or more cards of
\* the deck is in the token-id set after the card phase, is looked up and
\* fetched once in the token phase, and has two copies in the final sequence.
C7_TokensDeduplicated ==
    \A t \in TokenCards :
        /\ Cardinality(TokenLookups(t.id)) <= 1
        /\ Cardinality(TokenFetches(t.image)) <= 1
        /\ (~args_no_tokens /\ AfterCards /\ Cardinality(ListedBy(t.id)) >= 2) =>
            /\ t.id \in token_ids
            /\ AfterTokens =>
                /\ Cardinality(TokenLookups(t.id)) = 1
                /\ Cardinality(TokenFetches(t.image)) = 1
                /\ Copies(t.image) = 2

\* the Elf and the Goblin both list the Spirit, and the run is over
C7_Witness ==
    /\ pc = "done"
    /\ ~args_no_tokens
    /\ ListedBy(Spirit.id) = {Elf, Goblin}
    /\ Copies(Spirit.image) = 2

\* the id a --token spec of the runs names
NamedBy(spec) == IF spec = <<"Treasure">> THEN TreasureToken.id ELSE Spirit.id

Warnings == {i \in 1..Len(printed) : printed[i] # Note}

\* C8: with --no-tokens, every --token spec that resolves puts two images of
\* its token in the final sequence, no other token is looked up or fetched,
\* and a spec that does not resolve is warned about and skipped: the run
\* does not stop over it.
C8_ForcedDespiteNoTokens ==
    args_no_tokens =>
        /\ pc = "aborted" => i_spec > Len(args_token)
        /\ Cardinality(Warnings) + Cardinality(forced_token_ids) <= i_spec - 1
        /\ \A i \in 1..(i_spec - 1) :
            \/ \E j \in Warnings : printed[j] = Warning(args_token[i])
            \/ NamedBy(args_token[i]) \in forced_token_ids
        /\ \A id \in forced_token_ids : \E i \in 1..(i_spec - 1) :
            id = NamedBy(args_token[i])
        /\ token_ids \subseteq forced_token_ids
        /\ \A t \in TokenCards :
            /\ TokenLookups(t.id) # {} => t.id \in forced_token_ids
            /\ Copies(t.image) > 0 => t.id \in forced_token_ids
            /\ (AfterTokens /\ t.id \in forced_token_ids) => Copies(t.image) = 2

\* the Spirit was forced in a run with --no-tokens over a deck with the Elf
C8_Witness ==
    /\ pc = "done"
    /\ args_no_tokens
    /\ forced_token_ids = {Spirit.id}
    /\ printed = <<Note>>
    /\ Copies(Elf.image) > 0
    /\ Copies(Spirit.image) = 2

\* C9: a failure of an external call made outside identifier resolution is
\* the last thing the run does: the run is aborted there, and an aborted run
\* never reaches generate_pdf.
C9_FailuresAbort ==
    /\ \A i \in Failures :
        calls[i].by # "resolve_token_spec" => pc = "aborted" /\ i = Len(calls)
    /\ pc = "aborted" => pdf = <<>>
    /\ pdf # <<>> => pc = "done"

\* the artwork fetch of a token failed after the card phase
C9_Witness ==
    /\ pc = "aborted"
    /\ image_list # <<>>
    /\ Failures = {Len(calls)}
    /\ calls[Len(calls)].by = "process_token"
    /\ calls[Len(calls)].op = "fetch"
    /\ pdf = <<>>

=============================================================================
